---------------------------- MODULE Spec2Model ----------------------------
(***************************************************************************)
(* A model of floatmoneylint (lib/floatmoneylint.go): the analyzer's run   *)
(* callback applied by ast.Inspect to every node of a parsed Go file, the  *)
(* name matcher (isSuspicious, intersects), the type resolution            *)
(* (getInnerFloat) and the literal test (isFloatExpr).                     *)
(*                                                                         *)
(* Go strings that the matcher reads are sequences of one-character        *)
(* strings; type names and literal texts, which the code only compares or  *)
(* parses as a whole, are TLA+ strings.                                    *)
(***************************************************************************)
EXTENDS Integers, Sequences, FiniteSets, TLC

VARIABLES
    settings,   \* f.settings.Names: the configured watchlist
    file,       \* the *ast.File handed to ast.Inspect
    stack,      \* nodes ast.Inspect has still to visit, next one first
    reports,    \* the diagnostics given to pass.Report, in order
    status,     \* "running", "done" (run returned) or "panic" (run aborted)
    mTarget,    \* matcher call: the target argument (a watchlist)
    mSearch,    \* matcher call: the names searched
    mCall,      \* matcher call: "none", "isSuspicious" or "intersects"
    mResult     \* matcher call: the value returned

vars == <<settings, file, stack, reports, status, mTarget, mSearch, mCall, mResult>>

scanVars == <<settings, file, stack, reports, status>>
matchVars == <<mTarget, mSearch, mCall, mResult>>

-----------------------------------------------------------------------------
(* Bounds of the model.                                                    *)

\* longest string given to the matcher
MaxLen == 2
\* most entries of a watchlist given to the matcher
MaxTargets == 2
\* most specifiers of one declaration group
MaxSpecs == 2
\* most fields of one declaration (struct fields, or parameters plus results)
MaxFields == 2
\* most specifiers and struct fields together of one type declaration
MaxNodes == 4

-----------------------------------------------------------------------------
(* Strings.                                                                *)

Chars == {"a", "A", "b"}

\* unicode.ToLower on one character of the alphabet
LowerChar(c) == IF c = "A" THEN "a" ELSE c

\* strings.ToLower
ToLower(s) == [i \in 1..Len(s) |-> LowerChar(s[i])]

\* strings.Contains: substr occurs in s at some offset
Contains(s, substr) ==
    \E i \in 0..(Len(s) - Len(substr)) :
        \A k \in 1..Len(substr) : s[i + k] = substr[k]

\* all strings over alphabet of length at most n
RECURSIVE StringsUpTo(_, _)
StringsUpTo(alphabet, n) ==
    IF n = 0 THEN {<<>>}
    ELSE LET shorter == StringsUpTo(alphabet, n - 1)
         IN  shorter \cup {Append(s, c) : s \in shorter, c \in alphabet}

\* all sequences over S of length at most n
RECURSIVE SeqsUpTo(_, _)
SeqsUpTo(S, n) ==
    IF n = 0 THEN {<<>>}
    ELSE LET shorter == SeqsUpTo(S, n - 1)
         IN  shorter \cup {Append(s, x) : s \in shorter, x \in S}

-----------------------------------------------------------------------------
(* The name matcher.                                                       *)

\* func isSuspicious(target []string, name string) bool
isSuspicious(target, name) ==
    \E i \in 1..Len(target) : Contains(ToLower(name), ToLower(target[i]))

\* func intersects(target []string, search []string) bool
intersects(target, search) ==
    \E i \in 1..Len(search) : isSuspicious(target, search[i])

-----------------------------------------------------------------------------
(* Syntax nodes.  Every node is a record with a kind; a nil pointer or nil *)
(* interface is Nil.  Positions are token offsets in the file.             *)

Nil == [kind |-> "nil"]

sFloat32 == <<"f", "l", "o", "a", "t", "3", "2">>
sFloat64 == <<"f", "l", "o", "a", "t", "6", "4">>
sInt == <<"i", "n", "t">>

\* the identifiers declared in the files
sA == <<"A">>
sb == <<"b">>

FloatTypeNames == {sFloat32, sFloat64}

\* func isFloatTypeName(typ string) bool
isFloatTypeName(typ) == typ \in FloatTypeNames

\* an *ast.Ident
MkIdent(name, pos) ==
    [kind |-> "Ident", Name |-> name, Pos |-> pos, End |-> pos + Len(name)]

tArray == <<"[", "]">>
tStar == <<"*">>

\* a type expression from its tokens: <<tArray, sFloat64>> is []float64,
\* <<tStar, sFloat64>> is *float64, <<>> is no type at all
RECURSIVE MkType(_, _)
MkType(toks, pos) ==
    IF toks = <<>> THEN Nil
    ELSE IF Head(toks) = tArray
    THEN LET elt == MkType(Tail(toks), pos + 2)
         IN  [kind |-> "ArrayType", Elt |-> elt, Pos |-> pos, End |-> elt.End]
    ELSE IF Head(toks) = tStar
    THEN LET x == MkType(Tail(toks), pos + 1)
         IN  [kind |-> "StarExpr", X |-> x, Pos |-> pos, End |-> x.End]
    ELSE MkIdent(Head(toks), pos)

\* the texts of the initializers of the model: 3, 3.14, "abc", an integer
\* of twenty digits, and the identifier x
lit3 == <<"3">>
lit314 == <<"3", ".", "1", "4">>
litAbc == <<"\"", "a", "b", "c", "\"">>
litBig == [k \in 1..20 |-> "9"]
sX == <<"x">>

\* the token kind the scanner gives a literal
LitKind(value) ==
    CASE value = lit3 -> "INT"
      [] value = litBig -> "INT"
      [] value = lit314 -> "FLOAT"
      [] value = litAbc -> "STRING"

\* an initializer expression: a literal (*ast.BasicLit) or the identifier x
MkExpr(text, pos) ==
    IF text = sX
    THEN MkIdent(text, pos)
    ELSE [kind |-> "BasicLit", Kind |-> LitKind(text), Value |-> text,
          Pos |-> pos, End |-> pos + Len(text)]

\* strconv.ParseInt(value, 0, 64) returns no error: an integer literal
\* that fits 64 bits (twenty nines are out of range)
ParseIntOk(value) == value \in {lit3}

\* strconv.ParseFloat(value, 64) returns no error: decimal digits with an
\* optional fraction, of any length
ParseFloatOk(value) == value \in {lit3, lit314, litBig}

\* func isFloatExpr(expr ast.Expr) bool
isFloatExpr(expr) ==
    IF expr.kind = "BasicLit"
    THEN IF ParseIntOk(expr.Value) THEN FALSE
         ELSE IF ParseFloatOk(expr.Value) THEN TRUE
         ELSE FALSE
    ELSE FALSE

\* func getInnerFloat(typ ast.Expr) *ast.Ident
getInnerFloat(typ) ==
    CASE typ.kind = "Ident" ->
            IF isFloatTypeName(typ.Name) THEN typ ELSE Nil
      [] typ.kind = "ArrayType" ->
            IF typ.Elt.kind = "Ident" /\ isFloatTypeName(typ.Elt.Name)
            THEN typ.Elt ELSE Nil
      [] OTHER -> Nil

\* an *ast.Field at offset pos: names, a type and an optional tag
MkField(sh, pos) ==
    [kind |-> "Field",
     Names |-> [k \in 1..Len(sh.names) |-> MkIdent(sh.names[k], pos + 3 * (k - 1))],
     Type |-> MkType(sh.type, pos + 8),
     Tag |-> IF sh.tag = <<>> THEN Nil
             ELSE [kind |-> "BasicLit", Kind |-> "STRING", Value |-> sh.tag,
                   Pos |-> pos + 22, End |-> pos + 22 + Len(sh.tag)],
     Pos |-> pos, End |-> pos + 29]

\* an *ast.FieldList whose first field starts 30 after pos
MkFieldList(shs, pos) ==
    [kind |-> "FieldList",
     List |-> [j \in 1..Len(shs) |-> MkField(shs[j], pos + 30 * j)]]

\* an *ast.ValueSpec, the i-th specifier of its group
MkValueSpec(sh, i) ==
    [kind |-> "ValueSpec",
     Names |-> [k \in 1..Len(sh.names) |-> MkIdent(sh.names[k], 200 * i + 3 * (k - 1))],
     Type |-> MkType(sh.type, 200 * i + 10),
     Values |-> [v \in 1..Len(sh.values) |-> MkExpr(sh.values[v], 200 * i + 5 + 25 * v)],
     Pos |-> 200 * i, End |-> 200 * i + 199]

\* an *ast.TypeSpec, the i-th specifier of its group; its right-hand side
\* is a type expression or a struct type
MkTypeSpec(sh, i) ==
    [kind |-> "TypeSpec",
     Name |-> MkIdent(sh.name, 200 * i),
     Type |-> IF sh.struct
              THEN [kind |-> "StructType",
                    Fields |-> MkFieldList(sh.fields, 200 * i + 10),
                    Pos |-> 200 * i + 10, End |-> 200 * i + 199]
              ELSE MkType(sh.type, 200 * i + 10),
     Pos |-> 200 * i, End |-> 200 * i + 199]

\* an *ast.GenDecl
MkGenDecl(tok, specs) == [kind |-> "GenDecl", Tok |-> tok, Specs |-> specs]

\* an *ast.FuncDecl without receiver and body
MkFuncDecl(sh) ==
    [kind |-> "FuncDecl",
     Name |-> MkIdent(sh.name, 5),
     Type |-> [kind |-> "FuncType",
               Params |-> MkFieldList(sh.params, 100),
               Results |-> IF sh.results = <<>> THEN Nil
                           ELSE MkFieldList(sh.results, 300)]]

\* an *ast.File of package b
MkFile(decl) == [kind |-> "File", Name |-> MkIdent(sb, 8), Decls |-> <<decl>>]

-----------------------------------------------------------------------------
(* The callback of ast.Inspect in FloatMoney.run, one operator per case of *)
(* its type switch.  Each yields the diagnostics the case reports for one  *)
(* node, in order.                                                         *)

\* analysis.Diagnostic; the message is its template and the %s argument
Diagnostic(node, template, arg) ==
    [Pos |-> node.Pos, End |-> node.End, Category |-> "floatmoney",
     Message |-> <<template, arg>>]

\* the Name of every identifier of a list
IdentNames(idents) == [k \in 1..Len(idents) |-> idents[k].Name]

\* the first initializer that isFloatExpr accepts, or Nil
RECURSIVE FirstFloatValue(_, _)
FirstFloatValue(values, v) ==
    IF v > Len(values) THEN Nil
    ELSE IF isFloatExpr(values[v]) THEN values[v]
    ELSE FirstFloatValue(values, v + 1)

\* the expression a value specifier is judged by: its float type, else its
\* first float initializer, else Nil
ValueSpecExpr(spec) ==
    LET ident == getInnerFloat(spec.Type)
    IN  IF ident.kind # "nil" THEN ident ELSE FirstFloatValue(spec.Values, 1)

\* the report for one value specifier whose expression was found
ValueSpecReport(target, spec, expr) ==
    IF intersects(target, IdentNames(spec.Names))
    THEN IF expr.kind = "Ident"
         THEN <<Diagnostic(expr, "declaration type", expr.Name)>>
         ELSE IF expr.kind = "BasicLit"
         THEN <<Diagnostic(expr, "declaration value", expr.Value)>>
         ELSE <<>>
    ELSE <<>>

\* a variant of ValueSpecsLoop that also ends the loop at a specifier whose
\* names are not suspicious
RECURSIVE ValueSpecsLoopStopOnName(_, _, _)
ValueSpecsLoopStopOnName(target, specs, i) ==
    IF i > Len(specs) THEN <<>>
    ELSE LET expr == ValueSpecExpr(specs[i])
         IN  IF expr.kind = "nil" THEN <<>>
             ELSE IF ~intersects(target, IdentNames(specs[i].Names)) THEN <<>>
             ELSE ValueSpecReport(target, specs[i], expr)
                    \o ValueSpecsLoopStopOnName(target, specs, i + 1)

\* case *ast.GenDecl, token.VAR and token.CONST: the loop over n.Specs from
\* its i-th specifier on; "return true" ends the loop
RECURSIVE ValueSpecsLoop(_, _, _)
ValueSpecsLoop(target, specs, i) ==
    IF i > Len(specs) THEN <<>>
    ELSE LET expr == ValueSpecExpr(specs[i])
         IN  IF expr.kind = "nil" THEN <<>>
             ELSE ValueSpecReport(target, specs[i], expr)
                    \o ValueSpecsLoop(target, specs, i + 1)

\* a variant of StructFieldsLoop that skips a field of no float type and
\* goes on with the next
RECURSIVE StructFieldsLoopSkip(_, _)
StructFieldsLoopSkip(fields, j) ==
    IF j > Len(fields) THEN [reports |-> <<>>, completed |-> TRUE]
    ELSE LET typ == getInnerFloat(fields[j].Type)
             rest == StructFieldsLoopSkip(fields, j + 1)
         IN  IF typ.kind = "nil" THEN rest
             ELSE [reports |-> <<Diagnostic(typ, "struct field", typ.Name)>> \o rest.reports,
                   completed |-> rest.completed]

\* case *ast.StructType of a type specifier: the loop over typ.Fields.List
\* from its j-th field on; completed is FALSE when it ended by "return true"
RECURSIVE StructFieldsLoop(_, _)
StructFieldsLoop(fields, j) ==
    IF j > Len(fields) THEN [reports |-> <<>>, completed |-> TRUE]
    ELSE LET typ == getInnerFloat(fields[j].Type)
         IN  IF typ.kind = "nil" THEN [reports |-> <<>>, completed |-> FALSE]
             ELSE LET rest == StructFieldsLoop(fields, j + 1)
                  IN  [reports |-> <<Diagnostic(typ, "struct field", typ.Name)>> \o rest.reports,
                       completed |-> rest.completed]

\* the switch on spec.Type of one type specifier with a suspicious name:
\* its reports and how it ends: "next" (the loop goes on), "return" (the
\* callback returns true) or "panic" (innerFloat.Name with innerFloat nil)
TypeSpecSwitch(spec) ==
    LET typ == spec.Type
    IN  CASE typ.kind = "Ident" ->
                LET inner == getInnerFloat(typ)
                IN  IF inner.kind # "nil"
                    THEN [reports |-> <<Diagnostic(inner, "type alias", inner.Name)>>,
                          end |-> "next"]
                    ELSE [reports |-> <<>>, end |-> "next"]
          [] typ.kind = "ArrayType" ->
                LET innerFloat == getInnerFloat(typ)
                IN  IF typ.kind # "nil"
                    THEN IF innerFloat.kind = "nil"
                         THEN [reports |-> <<>>, end |-> "panic"]
                         ELSE [reports |-> <<Diagnostic(typ, "type alias", innerFloat.Name)>>,
                               end |-> "next"]
                    ELSE [reports |-> <<>>, end |-> "next"]
          [] typ.kind = "StructType" ->
                LET r == StructFieldsLoop(typ.Fields.List, 1)
                IN  [reports |-> r.reports,
                     end |-> IF r.completed THEN "next" ELSE "return"]
          [] OTHER -> [reports |-> <<>>, end |-> "next"]

\* case *ast.GenDecl, token.TYPE: the loop over n.Specs from its i-th
\* specifier on
RECURSIVE TypeSpecsLoop(_, _, _)
TypeSpecsLoop(target, specs, i) ==
    IF i > Len(specs) THEN [reports |-> <<>>, panic |-> FALSE]
    ELSE IF ~isSuspicious(target, specs[i].Name.Name)
    THEN [reports |-> <<>>, panic |-> FALSE]
    ELSE LET r == TypeSpecSwitch(specs[i])
         IN  IF r.end = "panic" THEN [reports |-> r.reports, panic |-> TRUE]
             ELSE IF r.end = "return" THEN [reports |-> r.reports, panic |-> FALSE]
             ELSE LET rest == TypeSpecsLoop(target, specs, i + 1)
                  IN  [reports |-> r.reports \o rest.reports, panic |-> rest.panic]

\* a variant of FuncFieldsLoop that tests the function's name alone
RECURSIVE FuncFieldsLoopFuncNameOnly(_, _, _, _, _)
FuncFieldsLoopFuncNameOnly(target, funcName, fields, j, template) ==
    IF j > Len(fields) THEN [reports |-> <<>>, completed |-> TRUE]
    ELSE LET typ == getInnerFloat(fields[j].Type)
         IN  IF typ.kind = "nil" THEN [reports |-> <<>>, completed |-> FALSE]
             ELSE LET rest == FuncFieldsLoopFuncNameOnly(target, funcName, fields,
                                                         j + 1, template)
                  IN  [reports |->
                          (IF isSuspicious(target, funcName)
                           THEN <<Diagnostic(typ, template, typ.Name)>> ELSE <<>>)
                          \o rest.reports,
                       completed |-> rest.completed]

\* a variant of FuncFieldsLoop that examines the first field alone
FuncFieldsLoopFirstOnly(target, funcName, fields, j, template) ==
    IF j > Len(fields) THEN [reports |-> <<>>, completed |-> TRUE]
    ELSE LET typ == getInnerFloat(fields[j].Type)
         IN  IF typ.kind = "nil" THEN [reports |-> <<>>, completed |-> FALSE]
             ELSE [reports |->
                      IF isSuspicious(target, funcName)
                         \/ intersects(target, IdentNames(fields[j].Names))
                      THEN <<Diagnostic(typ, template, typ.Name)>> ELSE <<>>,
                   completed |-> TRUE]

\* case *ast.FuncDecl: the loop over n.Type.Params.List, or over
\* n.Type.Results.List, from its j-th field on; completed is FALSE when it
\* ended by "return true"
RECURSIVE FuncFieldsLoop(_, _, _, _, _)
FuncFieldsLoop(target, funcName, fields, j, template) ==
    IF j > Len(fields) THEN [reports |-> <<>>, completed |-> TRUE]
    ELSE LET typ == getInnerFloat(fields[j].Type)
         IN  IF typ.kind = "nil" THEN [reports |-> <<>>, completed |-> FALSE]
             ELSE LET rest == FuncFieldsLoop(target, funcName, fields, j + 1, template)
                  IN  [reports |->
                          (IF isSuspicious(target, funcName)
                              \/ intersects(target, IdentNames(fields[j].Names))
                           THEN <<Diagnostic(typ, template, typ.Name)>> ELSE <<>>)
                          \o rest.reports,
                       completed |-> rest.completed]

\* a variant of FuncDeclRule that examines the results whatever the
\* parameters
FuncDeclRuleResultsAlways(target, n) ==
    LET params == FuncFieldsLoop(target, n.Name.Name, n.Type.Params.List, 1,
                                 "function parameter")
        results == IF n.Type.Results.kind # "nil"
                   THEN FuncFieldsLoop(target, n.Name.Name, n.Type.Results.List, 1,
                                       "function return value")
                   ELSE [reports |-> <<>>, completed |-> TRUE]
    IN  params.reports \o results.reports

\* case *ast.FuncDecl
FuncDeclRule(target, n) ==
    IF n.Type.kind = "nil" THEN <<>>
    ELSE LET params == IF n.Type.Params.kind # "nil"
                       THEN FuncFieldsLoop(target, n.Name.Name, n.Type.Params.List, 1,
                                           "function parameter")
                       ELSE [reports |-> <<>>, completed |-> TRUE]
         IN  IF ~params.completed THEN params.reports
             ELSE IF n.Type.Results.kind # "nil"
             THEN params.reports
                    \o FuncFieldsLoop(target, n.Name.Name, n.Type.Results.List, 1,
                                      "function return value").reports
             ELSE params.reports

\* the names the field case scans: the field's names, then its tag's text
FieldNames(n) ==
    IF n.Tag.kind # "nil"
    THEN Append(IdentNames(n.Names), n.Tag.Value)
    ELSE IdentNames(n.Names)

\* a variant of FieldRule that does not scan the tag
FieldRuleNoTag(target, n) ==
    LET typ == getInnerFloat(n.Type)
    IN  IF typ.kind = "nil" THEN <<>>
        ELSE IF intersects(target, IdentNames(n.Names))
        THEN <<Diagnostic(typ, "field", typ.Name)>>
        ELSE <<>>

\* case *ast.Field
FieldRule(target, n) ==
    LET typ == getInnerFloat(n.Type)
    IN  IF typ.kind = "nil" THEN <<>>
        ELSE IF intersects(target, FieldNames(n))
        THEN <<Diagnostic(typ, "field", typ.Name)>>
        ELSE <<>>

-----------------------------------------------------------------------------
(* The files scanned: one top-level declaration each.                      *)

\* the watchlists of the scan: one entry that "A" matches by case folding
\* and "b" does not; no entry; two entries that match "b" and "A"
Watchlists == { << <<"a">> >>, <<>>, << <<"b">>, <<"A">> >> }

NoTag == <<>>

\* names, type and initializers of the value specifiers
ValueSpecShapes ==
    { [names |-> <<sA>>, type |-> <<sFloat64>>, values |-> <<>>],
      [names |-> <<sb>>, type |-> <<tArray, sFloat32>>, values |-> <<lit314>>],
      [names |-> <<sA>>, type |-> <<>>, values |-> <<lit314>>],
      [names |-> <<sA>>, type |-> <<>>, values |-> <<lit3>>],
      [names |-> <<sA, sb>>, type |-> <<sInt>>, values |-> <<litAbc, lit314>>],
      [names |-> <<sb, sA>>, type |-> <<>>, values |-> <<litBig>>],
      [names |-> <<sb>>, type |-> <<>>, values |-> <<lit3, lit314>>],
      [names |-> <<sA>>, type |-> <<>>, values |-> <<sX>>],
      [names |-> <<sA>>, type |-> <<tArray, tArray, sFloat64>>, values |-> <<>>] }

\* the fields of the struct types
StructFieldShapes ==
    { [names |-> <<sb>>, type |-> <<sFloat64>>, tag |-> NoTag],
      [names |-> <<sb>>, type |-> <<sInt>>, tag |-> NoTag],
      [names |-> <<sb>>, type |-> <<tArray, sFloat32>>, tag |-> <<"\"", "a", "\"">>],
      [names |-> <<>>, type |-> <<sFloat64>>, tag |-> NoTag] }

\* the parameter and result fields of the functions
FuncFieldShapes ==
    { [names |-> <<sA>>, type |-> <<sFloat64>>, tag |-> NoTag],
      [names |-> <<sb>>, type |-> <<sFloat64>>, tag |-> NoTag],
      [names |-> <<sb>>, type |-> <<sInt>>, tag |-> NoTag],
      [names |-> <<sA>>, type |-> <<tArray, tArray, sFloat64>>, tag |-> NoTag],
      [names |-> <<>>, type |-> <<tArray, sFloat32>>, tag |-> NoTag] }

SeqsOfLen(S, k) == {q \in SeqsUpTo(S, k) : Len(q) = k}

\* the type specifiers that hold exactly k struct fields
TypeSpecShapes(k) ==
    (IF k = 0
     THEN {[name |-> sA, struct |-> FALSE, type |-> t, fields |-> <<>>] :
              t \in {<<sFloat64>>, <<sInt>>, <<tArray, sFloat64>>, <<tArray, sInt>>,
                     <<tStar, sFloat64>>}}
          \cup {[name |-> sb, struct |-> FALSE, type |-> <<sFloat32>>, fields |-> <<>>]}
     ELSE {})
    \cup {[name |-> sA, struct |-> TRUE, type |-> <<>>, fields |-> fs] :
             fs \in SeqsOfLen(StructFieldShapes, k)}
    \cup (IF k = 1
          THEN {[name |-> sb, struct |-> TRUE, type |-> <<>>,
                 fields |-> <<[names |-> <<sA>>, type |-> <<sFloat64>>, tag |-> NoTag]>>]}
          ELSE {})

\* the groups of at most n type specifiers that hold, specifiers and
\* struct fields together, at most size nodes
RECURSIVE TypeGroups(_, _)
TypeGroups(n, size) ==
    IF n = 0 \/ size <= 0 THEN {<<>>}
    ELSE {<<>>} \cup UNION { { <<sh>> \o g : sh \in TypeSpecShapes(k),
                                             g \in TypeGroups(n - 1, size - 1 - k) } :
                             k \in 0..(IF size - 1 < MaxFields THEN size - 1 ELSE MaxFields) }

ValueDecls ==
    { MkGenDecl(tok, [i \in 1..Len(g) |-> MkValueSpec(g[i], i)]) :
        tok \in {"VAR", "CONST"}, g \in SeqsUpTo(ValueSpecShapes, MaxSpecs) \ {<<>>} }

TypeDecls ==
    { MkGenDecl("TYPE", [i \in 1..Len(g) |-> MkTypeSpec(g[i], i)]) :
        g \in TypeGroups(MaxSpecs, MaxNodes) \ {<<>>} }

ImportDecls ==
    { MkGenDecl("IMPORT",
                <<[kind |-> "ImportSpec",
                   Path |-> [kind |-> "BasicLit", Kind |-> "STRING", Value |-> <<"b">>,
                             Pos |-> 200, End |-> 203]]>>) }

FuncDecls ==
    { MkFuncDecl([name |-> nm, params |-> ps, results |-> rs]) :
        nm \in {sA, sb},
        ps \in SeqsUpTo(FuncFieldShapes, MaxFields),
        rs \in SeqsUpTo(FuncFieldShapes, MaxFields) }

Files ==
    { MkFile(d) : d \in ValueDecls \cup TypeDecls \cup ImportDecls }
    \cup { MkFile(d) : d \in {fd \in FuncDecls :
                Len(fd.Type.Params.List)
                  + (IF fd.Type.Results.kind = "nil" THEN 0
                     ELSE Len(fd.Type.Results.List)) <= MaxFields} }

-----------------------------------------------------------------------------
(* ast.Inspect: a depth-first walk that calls the callback on every node   *)
(* and, as the callback always returns true, descends into every child.    *)
(* After the children of a node it calls the callback on nil, which        *)
(* matches no case of the type switch and changes nothing.                 *)

Opt(n) == IF n.kind = "nil" THEN <<>> ELSE <<n>>

\* the children ast.Walk visits, in its order
Children(n) ==
    CASE n.kind = "File" -> <<n.Name>> \o n.Decls
      [] n.kind = "GenDecl" -> n.Specs
      [] n.kind = "ImportSpec" -> <<n.Path>>
      [] n.kind = "ValueSpec" -> n.Names \o Opt(n.Type) \o n.Values
      [] n.kind = "TypeSpec" -> <<n.Name>> \o Opt(n.Type)
      [] n.kind = "FuncDecl" -> <<n.Name>> \o Opt(n.Type)
      [] n.kind = "FuncType" -> Opt(n.Params) \o Opt(n.Results)
      [] n.kind = "FieldList" -> n.List
      [] n.kind = "Field" -> n.Names \o Opt(n.Type) \o Opt(n.Tag)
      [] n.kind = "StructType" -> <<n.Fields>>
      [] n.kind = "ArrayType" -> Opt(n.Elt)
      [] n.kind = "StarExpr" -> <<n.X>>
      [] OTHER -> <<>>

\* the callback returned true on the node at the head of the stack
Descend == stack' = Children(Head(stack)) \o Tail(stack)

Visiting(kind) ==
    /\ status = "running"
    /\ stack # <<>>
    /\ Head(stack).kind = kind

InitMatchIdle ==
    /\ mTarget = <<>>
    /\ mSearch = <<>>
    /\ mCall = "none"
    /\ mResult = FALSE

\* run is called on a pass that holds one file
Init ==
    /\ settings \in Watchlists
    /\ file \in Files
    /\ stack = <<file>>
    /\ reports = <<>>
    /\ status = "running"
    /\ InitMatchIdle

VisitValueDecl ==
    /\ Visiting("GenDecl")
    /\ Head(stack).Tok \in {"VAR", "CONST"}
    /\ reports' = reports \o ValueSpecsLoop(settings, Head(stack).Specs, 1)
    /\ Descend
    /\ UNCHANGED <<settings, file, status, matchVars>>

VisitTypeDecl ==
    /\ Visiting("GenDecl")
    /\ Head(stack).Tok = "TYPE"
    /\ LET r == TypeSpecsLoop(settings, Head(stack).Specs, 1)
       IN  /\ reports' = reports \o r.reports
           /\ IF r.panic
              THEN status' = "panic" /\ stack' = stack
              ELSE status' = status /\ Descend
    /\ UNCHANGED <<settings, file, matchVars>>

VisitOtherDecl ==
    /\ Visiting("GenDecl")
    /\ Head(stack).Tok \notin {"VAR", "CONST", "TYPE"}
    /\ Descend
    /\ UNCHANGED <<settings, file, reports, status, matchVars>>

VisitFuncDecl ==
    /\ Visiting("FuncDecl")
    /\ reports' = reports \o FuncDeclRule(settings, Head(stack))
    /\ Descend
    /\ UNCHANGED <<settings, file, status, matchVars>>

VisitField ==
    /\ Visiting("Field")
    /\ reports' = reports \o FieldRule(settings, Head(stack))
    /\ Descend
    /\ UNCHANGED <<settings, file, status, matchVars>>

VisitOtherNode ==
    /\ status = "running"
    /\ stack # <<>>
    /\ Head(stack).kind \notin {"GenDecl", "FuncDecl", "Field"}
    /\ Descend
    /\ UNCHANGED <<settings, file, reports, status, matchVars>>

\* ast.Inspect has returned for the last file: run returns nil, nil
Finish ==
    /\ status = "running"
    /\ stack = <<>>
    /\ status' = "done"
    /\ UNCHANGED <<settings, file, stack, reports, matchVars>>

Next ==
    \/ VisitValueDecl
    \/ VisitTypeDecl
    \/ VisitOtherDecl
    \/ VisitFuncDecl
    \/ VisitField
    \/ VisitOtherNode
    \/ Finish

Spec == Init /\ [][Next]_vars

-----------------------------------------------------------------------------
(* The matcher called on its own: isSuspicious on one name, intersects on  *)
(* a list of names, for every watchlist and every name within the bounds.  *)

MatchStrings == StringsUpTo(Chars, MaxLen)

InitMatch ==
    /\ mTarget \in SeqsUpTo(MatchStrings, MaxTargets)
    /\ mSearch \in SeqsUpTo(MatchStrings, MaxTargets)
    /\ mCall = "none"
    /\ mResult = FALSE
    /\ settings = <<>>
    /\ file = Nil
    /\ stack = <<>>
    /\ reports = <<>>
    /\ status = "done"

CallIsSuspicious ==
    /\ mCall = "none"
    /\ Len(mSearch) = 1
    /\ mResult' = isSuspicious(mTarget, mSearch[1])
    /\ mCall' = "isSuspicious"
    /\ UNCHANGED <<mTarget, mSearch, scanVars>>

CallIntersects ==
    /\ mCall = "none"
    /\ mResult' = intersects(mTarget, mSearch)
    /\ mCall' = "intersects"
    /\ UNCHANGED <<mTarget, mSearch, scanVars>>

NextMatch ==
    \/ CallIsSuspicious
    \/ CallIntersects

SpecMatch == InitMatch /\ [][NextMatch]_vars

-----------------------------------------------------------------------------
(* The vocabulary of the properties.                                       *)

\* the declaration of the file
Decl == file.Decls[1]

\* the nodes of a forest in the order ast.Inspect visits them
RECURSIVE Preorder(_)
Preorder(todo) ==
    IF Len(todo) = 0 THEN <<>>
    ELSE <<Head(todo)>> \o Preorder(Children(Head(todo)) \o Tail(todo))

\* the callback has been applied to the declaration
DeclVisited ==
    \/ status # "running"
    \/ \A k \in 1..Len(stack) : stack[k].kind \notin {"File", "GenDecl", "FuncDecl"}

\* a type expression resolves to a float leaf: float32 or float64, or an
\* array whose element is one of them
IsFloatLeaf(t) ==
    \/ t.kind = "Ident" /\ t.Name \in {sFloat32, sFloat64}
    \/ t.kind = "ArrayType" /\ t.Elt.kind = "Ident" /\ t.Elt.Name \in {sFloat32, sFloat64}

\* the float leaf of a type expression that resolves to one
FloatLeaf(t) == IF t.kind = "ArrayType" THEN t.Elt ELSE t

\* a diagnostic has the span of a node
SameSpan(d, node) == d.Pos = node.Pos /\ d.End = node.End

\* a diagnostic lies within a node
Within(d, node) == node.Pos <= d.Pos /\ d.End <= node.End

\* the diagnostics of one message template, in order
ReportsOf(template) == SelectSeq(reports, LAMBDA d : d.Message[1] = template)

\* the diagnostics of some templates within a node, in order
ReportsIn(templates, node) ==
    SelectSeq(reports, LAMBDA d : d.Message[1] \in templates /\ Within(d, node))

-----------------------------------------------------------------------------
(* Properties.                                                             *)

\* C1: the scan is total.  It never aborts, and a type declaration with a
\* suspicious name whose right-hand side is an array that does not resolve
\* to a float leaf yields no finding and lets the scan go on to its end.
C1_ScanIsTotal ==
    /\ status # "panic"
    /\ (Decl.kind = "GenDecl" /\ Decl.Tok = "TYPE") =>
          \A i \in 1..Len(Decl.Specs) :
              (Decl.Specs[i].Type.kind = "ArrayType" /\ ~IsFloatLeaf(Decl.Specs[i].Type))
                  => ReportsIn({"type alias"}, Decl.Specs[i]) = <<>>

\* C4: every finding has the span of the node it is attributed to, a float
\* leaf type identifier or a literal initializer, never the span of an
\* array type around the leaf.
C4_SpanOfLeafOrLiteral ==
    LET nodes == Preorder(<<file>>)
    IN  \A i \in 1..Len(reports) :
            \E k \in 1..Len(nodes) :
                /\ \/ nodes[k].kind = "Ident" /\ nodes[k].Name \in FloatTypeNames
                   \/ nodes[k].kind = "BasicLit"
                /\ SameSpan(reports[i], nodes[k])

\* C7: isSuspicious returns false whenever the name is empty or the
\* watchlist is empty, and otherwise true exactly when the lower-cased name
\* contains a lower-cased entry; intersects is false for such inputs too.
C7_IsSuspiciousContract ==
    /\ mCall = "isSuspicious" =>
          IF mSearch[1] = <<>> \/ mTarget = <<>>
          THEN mResult = FALSE
          ELSE mResult = (\E i \in 1..Len(mTarget) :
                             Contains(ToLower(mSearch[1]), ToLower(mTarget[i])))
    /\ mCall = "intersects" =>
          ((mTarget = <<>> \/ \A k \in 1..Len(mSearch) : mSearch[k] = <<>>)
              => mResult = FALSE)

-----------------------------------------------------------------------------
(* Functions: the parameter and result fields of the declaration.          *)

IsFunc == Decl.kind = "FuncDecl"

Params == Decl.Type.Params.List

Results == IF Decl.Type.Results.kind = "nil" THEN <<>> ELSE Decl.Type.Results.List

\* the fields 1..j all have a type that resolves to a float leaf
AllFloatUpTo(fields, j) == \A k \in 1..j : IsFloatLeaf(fields[k].Type)

\* the function's name or one of the field's own names is suspicious
FieldTriggers(f) ==
    isSuspicious(settings, Decl.Name.Name) \/ intersects(settings, IdentNames(f.Names))

\* the finding of a rule on the float leaf of a field
LeafFinding(f, template) ==
    Diagnostic(FloatLeaf(f.Type), template, FloatLeaf(f.Type).Name)

\* scenario C and its like: one parameter field, of float type and with a
\* suspicious name of its own, and no float result
C2_Case ==
    /\ IsFunc
    /\ Len(Params) = 1
    /\ IsFloatLeaf(Params[1].Type)
    /\ intersects(settings, IdentNames(Params[1].Names))
    /\ \A k \in 1..Len(Results) : ~IsFloatLeaf(Results[k].Type)

\* C2 as stated: over the whole scan such a function gets exactly one
\* finding, on the type node of the parameter.
C2_OneFindingOverScan ==
    (status = "done" /\ C2_Case) =>
        /\ Len(reports) = 1
        /\ SameSpan(reports[1], FloatLeaf(Params[1].Type))

\* C2 amended: over the whole scan such a function gets exactly two
\* findings, both on the type node of the parameter: the one of the
\* function-declaration rule, then the one of the field rule.
C2_TwoFindingsOverScan ==
    (status = "done" /\ C2_Case) =>
        reports = <<LeafFinding(Params[1], "function parameter"),
                    LeafFinding(Params[1], "field")>>

\* func b(A float64) int under the watchlist ["a"], scanned to the end
C2_Witness ==
    /\ status = "done"
    /\ C2_Case
    /\ settings = << <<"a">> >>
    /\ Decl.Name.Name = sb
    /\ Len(Results) = 1
    /\ Results[1].Type.Name = sInt
    /\ Len(reports) = 2

\* C5 as stated: the function-declaration rule emits at most one parameter
\* finding and at most one return-value finding, and none for a second or
\* later parameter or result field.
C5_FirstFieldsOnly ==
    (DeclVisited /\ IsFunc) =>
        /\ Len(ReportsOf("function parameter")) <= 1
        /\ Len(ReportsOf("function return value")) <= 1
        /\ \A j \in 2..Len(Params) :
              ReportsIn({"function parameter"}, Params[j]) = <<>>
        /\ \A j \in 2..Len(Results) :
              ReportsIn({"function return value"}, Results[j]) = <<>>

\* C5 amended: the rule examines the parameter fields in order up to the
\* first one whose type does not resolve to a float leaf, and the result
\* fields likewise when no parameter field stopped it.  Every examined field
\* gets one finding when the function's name or a name of the field is
\* suspicious, a second or later field included; no other field gets one.
C5_EveryLeadingFloatField ==
    (DeclVisited /\ IsFunc) =>
        /\ \A j \in 1..Len(Params) :
              ReportsIn({"function parameter"}, Params[j]) =
                  IF AllFloatUpTo(Params, j) /\ FieldTriggers(Params[j])
                  THEN <<LeafFinding(Params[j], "function parameter")>>
                  ELSE <<>>
        /\ \A j \in 1..Len(Results) :
              ReportsIn({"function return value"}, Results[j]) =
                  IF /\ AllFloatUpTo(Params, Len(Params))
                     /\ AllFloatUpTo(Results, j)
                     /\ FieldTriggers(Results[j])
                  THEN <<LeafFinding(Results[j], "function return value")>>
                  ELSE <<>>
        /\ Len(ReportsOf("function parameter")) <= Len(Params)
        /\ Len(ReportsOf("function return value")) <= Len(Results)

\* a function with a suspicious name and two float parameter fields has
\* been visited and has a parameter finding for each
C5_Witness ==
    /\ DeclVisited
    /\ IsFunc
    /\ isSuspicious(settings, Decl.Name.Name)
    /\ Len(Params) = 2
    /\ AllFloatUpTo(Params, 2)
    /\ ReportsOf("function parameter") =
          <<LeafFinding(Params[1], "function parameter"),
            LeafFinding(Params[2], "function parameter")>>

\* C10: the function-declaration rule emits a return-value finding only if
\* every parameter field of the function resolves to a float leaf (or there
\* is none): a function with a parameter that does not gets no return-value
\* finding, whatever its name and its results.
C10_ResultsOnlyAfterFloatParams ==
    (DeclVisited /\ IsFunc) =>
        (ReportsOf("function return value") # <<>> => AllFloatUpTo(Params, Len(Params)))

\* a function with a suspicious name, a float result and a parameter that is
\* no float has been visited, and has no return-value finding
C10_Witness ==
    /\ DeclVisited
    /\ IsFunc
    /\ isSuspicious(settings, Decl.Name.Name)
    /\ Len(Results) >= 1
    /\ IsFloatLeaf(Results[1].Type)
    /\ ~AllFloatUpTo(Params, Len(Params))
    /\ ReportsOf("function return value") = <<>>

-----------------------------------------------------------------------------
(* Declaration groups: the specifiers of a var, const or type declaration. *)

IsValueDecl == Decl.kind = "GenDecl" /\ Decl.Tok \in {"VAR", "CONST"}

IsTypeDecl == Decl.kind = "GenDecl" /\ Decl.Tok = "TYPE"

ValueTemplates == {"declaration type", "declaration value"}

TypeTemplates == {"type alias", "struct field"}

\* an initializer is a float literal of the language
IsFloatLiteral(e) == e.kind = "BasicLit" /\ e.Kind = "FLOAT"

\* the names of a value specifier are suspicious
ValueNamesSuspicious(spec) == intersects(settings, IdentNames(spec.Names))

\* C3: for a group of one value specifier the rule emits a finding exactly
\* when a declared name is suspicious and either the declared type resolves
\* to a float leaf, or there is no declared type and some initializer is a
\* float literal; at most one finding, on the resolved type node or on the
\* first float literal; none for an integer literal, and none for a declared
\* type that is no float leaf, whatever the initializers.
C3_ValueRule ==
    (DeclVisited /\ IsValueDecl /\ Len(Decl.Specs) = 1) =>
        LET spec == Decl.Specs[1]
            found == ReportsIn(ValueTemplates, spec)
            floats == {v \in 1..Len(spec.Values) : IsFloatLiteral(spec.Values[v])}
        IN  /\ Len(found) <= 1
            /\ (Len(found) = 1) <=>
                  /\ ValueNamesSuspicious(spec)
                  /\ \/ IsFloatLeaf(spec.Type)
                     \/ spec.Type.kind = "nil" /\ floats # {}
            /\ (Len(found) = 1 /\ IsFloatLeaf(spec.Type)) =>
                  SameSpan(found[1], FloatLeaf(spec.Type))
            /\ (Len(found) = 1 /\ ~IsFloatLeaf(spec.Type)) =>
                  \E v \in floats :
                      /\ SameSpan(found[1], spec.Values[v])
                      /\ \A w \in floats : v <= w

\* a value specifier has an expression to be judged by: a float leaf type,
\* or an initializer that passes the literal test
ValueTypeCondition(spec) ==
    IsFloatLeaf(spec.Type) \/ \E v \in 1..Len(spec.Values) : isFloatExpr(spec.Values[v])

\* a type specifier's right-hand side is a float leaf, or a struct whose
\* fields all have float leaf types
TypeTypeCondition(spec) ==
    \/ IsFloatLeaf(spec.Type)
    \/ /\ spec.Type.kind = "StructType"
       /\ AllFloatUpTo(spec.Type.Fields.List, Len(spec.Type.Fields.List))

\* the specifier passes the type condition and the name condition of its rule
PassesConditions(spec) ==
    IF spec.kind = "ValueSpec"
    THEN ValueTypeCondition(spec) /\ ValueNamesSuspicious(spec)
    ELSE TypeTypeCondition(spec) /\ isSuspicious(settings, spec.Name.Name)

\* the loop over the group ends at this specifier: a value specifier with
\* nothing to be judged by; a type specifier whose name is not suspicious,
\* or that is a struct with a field of no float type, or an array of no
\* float element (which aborts the scan)
StopsGroup(spec) ==
    IF spec.kind = "ValueSpec"
    THEN ~ValueTypeCondition(spec)
    ELSE \/ ~isSuspicious(settings, spec.Name.Name)
         \/ /\ spec.Type.kind = "StructType"
            /\ ~AllFloatUpTo(spec.Type.Fields.List, Len(spec.Type.Fields.List))
         \/ spec.Type.kind = "ArrayType" /\ ~IsFloatLeaf(spec.Type)

\* the loop over the group reaches the i-th specifier
Examined(i) == \A k \in 1..(i - 1) : ~StopsGroup(Decl.Specs[k])

\* the specifier, once reached, gets a finding from the rule of its group
YieldsFinding(spec) ==
    IF spec.kind = "ValueSpec"
    THEN ValueTypeCondition(spec) /\ ValueNamesSuspicious(spec)
    ELSE /\ isSuspicious(settings, spec.Name.Name)
         /\ \/ IsFloatLeaf(spec.Type)
            \/ /\ spec.Type.kind = "StructType"
               /\ Len(spec.Type.Fields.List) >= 1
               /\ IsFloatLeaf(spec.Type.Fields.List[1].Type)

\* the findings of the group's rule within the i-th specifier
GroupFindings(i) == ReportsIn(ValueTemplates \cup TypeTemplates, Decl.Specs[i])

\* C8 as stated: once a specifier of a group fails its type condition or
\* its name condition, no later specifier of the group yields a finding.
C8_StopAtFirstFailure ==
    (DeclVisited /\ (IsValueDecl \/ IsTypeDecl)) =>
        \A i \in 1..Len(Decl.Specs) :
            GroupFindings(i) # <<>> =>
                \A k \in 1..(i - 1) : PassesConditions(Decl.Specs[k])

\* C8 amended: in a value declaration only a specifier that fails its type
\* condition ends the group; one that fails only its name condition yields
\* nothing and the next is examined.  In a type declaration a specifier whose
\* name is not suspicious, a struct with a field of no float type and an
\* array of no float element end the group; a plain name of no float type,
\* or another shape, yields nothing and the next is examined.  A specifier
\* yields a finding exactly when it is reached and passes its conditions
\* (a struct: when its first field has a float type).
C8_StopOnlyWhereLoopReturns ==
    (DeclVisited /\ (IsValueDecl \/ IsTypeDecl)) =>
        \A i \in 1..Len(Decl.Specs) :
            GroupFindings(i) # <<>> <=> (Examined(i) /\ YieldsFinding(Decl.Specs[i]))

\* a value group has been visited whose first specifier fails only its name
\* condition and whose second specifier has a finding
C8_Witness ==
    /\ DeclVisited
    /\ IsValueDecl
    /\ Len(Decl.Specs) = 2
    /\ ValueTypeCondition(Decl.Specs[1])
    /\ ~ValueNamesSuspicious(Decl.Specs[1])
    /\ GroupFindings(1) = <<>>
    /\ GroupFindings(2) # <<>>

\* scenario B under the watchlist ["a"]: type A struct { b float64; b int }
ScenarioB ==
    MkFile(MkGenDecl("TYPE",
        <<MkTypeSpec([name |-> sA, struct |-> TRUE, type |-> <<>>,
                      fields |-> <<[names |-> <<sb>>, type |-> <<sFloat64>>, tag |-> NoTag],
                                   [names |-> <<sb>>, type |-> <<sInt>>, tag |-> NoTag]>>],
                     1)>>))

-----------------------------------------------------------------------------
(* Fields.                                                                 *)

\* the field nodes of the file
FieldNodes == SelectSeq(Preorder(<<file>>), LAMBDA n : n.kind = "Field")

\* the callback has not been applied to the field yet: it is among the
\* nodes still to visit
Pending(f, todo) ==
    \E k \in 1..Len(todo) : todo[k].kind = "Field" /\ todo[k].Pos = f.Pos

\* one of the field's own names, or the text of its tag, is suspicious
FieldSuspicious(f) ==
    \/ \E k \in 1..Len(f.Names) : isSuspicious(settings, f.Names[k].Name)
    \/ f.Tag.kind # "nil" /\ isSuspicious(settings, f.Tag.Value)

\* C6: every field node visited gets exactly one field-rule finding, on its
\* resolved type node, if its type resolves to a float leaf and one of its
\* names or its tag text is suspicious, and none otherwise; a field with no
\* names and no tag never gets one.
C6_FieldRule ==
    file.kind = "File" =>
        LET fields == FieldNodes
            todo == Preorder(stack)
        IN  \A i \in 1..Len(fields) :
                LET f == fields[i]
                IN  /\ ~Pending(f, todo) =>
                          ReportsIn({"field"}, f) =
                              IF IsFloatLeaf(f.Type) /\ FieldSuspicious(f)
                              THEN <<LeafFinding(f, "field")>>
                              ELSE <<>>
                    /\ (Len(f.Names) = 0 /\ f.Tag.kind = "nil") =>
                          ReportsIn({"field"}, f) = <<>>

\* a visited field of float type whose names are not suspicious and whose
\* tag is has its finding
C6_Witness ==
    /\ file.kind = "File"
    /\ \E i \in 1..Len(FieldNodes) :
          LET f == FieldNodes[i]
          IN  /\ ~Pending(f, Preorder(stack))
              /\ IsFloatLeaf(f.Type)
              /\ ~intersects(settings, IdentNames(f.Names))
              /\ f.Tag.kind # "nil"
              /\ isSuspicious(settings, f.Tag.Value)
              /\ ReportsIn({"field"}, f) = <<LeafFinding(f, "field")>>

=============================================================================
